---- MODULE Spec2Model ----
(***************************************************************************)
(* Calibration fits of the rheometer and their uncertainty analysis.       *)
(*                                                                         *)
(* Row1DataSummary/Uncertainity.py analyses Cell 1 with an inline          *)
(* per-torque loop; Row2DataSummary/10K/R2_Uncertainity10K.py analyses     *)
(* every cell through analyze_cell_uncertainty.                            *)
(* Row1DataSummary/fit_all.py and curvefit.py load the trial spreadsheets, *)
(* filter the torque columns to the range 42..57 and fit a line per cell.  *)
(*                                                                         *)
(* Numbers.  A float is a record [k, n, d]: k = "fin" is the exact rational *)
(* n/d (d > 0), k = "inf" is +inf (n = 1) or -inf (n = -1), k = "nan" is   *)
(* NaN.  Slopes, intercepts and Z-heights are counted in thousandths       *)
(* (117.200 is 117200), torques are whole numbers, and an uncertainty,     *)
(* slope * range, is therefore counted in millionths (0.2 is 200000).      *)
(* Rounding to three decimals is rounding to a whole number of             *)
(* thousandths; binary representation error of IEEE doubles is not         *)
(* modelled.                                                               *)
(***************************************************************************)
EXTENDS Integers, Sequences, FiniteSets, TLC

VARIABLES
    script,                \* which script runs: "row1" or "row2"
    all_cells_equations,   \* sequence of cells, each a sequence of trial fits
    torque_levels,         \* sequence of torque levels
    pc,                    \* position of the script
    ti,                    \* Row 1: index of the next torque level of the main loop
    results_data,          \* Row 1: the rows appended so far
    z_height_matrix,       \* Row 1: the per-trial Z-heights of each row
    steepest_slope,        \* Row 1: module-level steepest_slope
    steepest_trial,        \* Row 1: module-level steepest_trial (index of the trial)
    summary,               \* Row 1: max/min/avg uncertainty of the summary
    si,                    \* Row 1: index of the next torque level of the status loop
    status_out,            \* Row 1: the status printed for each torque level
    all_results,           \* Row 2: results per analysed cell
    ci,                    \* Row 2: index of the next cell of the running loop
    cell_summaries,        \* Row 2: what the summary loop printed per cell
    fscript,               \* which fitting script runs: "fit_all" or "curvefit"
    files,                 \* the spreadsheet behind each trial file name
    fpc,                   \* position of the fitting script
    fi,                    \* fit_all: number of the next trial file of the load loop
    attempts,              \* the trial files the script has tried to open, in order
    trial_data,            \* dict trial number -> table (curvefit: df under key 1)
    printed,               \* the warnings and counts printed so far
    pi,                    \* fit_all: index of the next item of trial_data.items()
    fit_calls,             \* the calls of stats.linregress, in order
    axes,                  \* what each subplot shows
    all_equations,         \* fit_all: dict trial number -> trial_equations
    summary_table,         \* fit_all: the summary table of equations
    statistics             \* the trials whose statistics were printed

\* The state of the uncertainty scripts and the state of the fitting scripts.
uncVars == <<script, all_cells_equations, torque_levels, pc, ti, results_data,
             z_height_matrix, steepest_slope, steepest_trial, summary, si,
             status_out, all_results, ci, cell_summaries>>

fitVars == <<fscript, files, fpc, fi, attempts, trial_data, printed, pi,
             fit_calls, axes, all_equations, summary_table, statistics>>

vars == <<uncVars, fitVars>>

----------------------------------------------------------------------------
(* Bounds of the model *)

MaxTrials == 2
MaxLevels == 2
MaxTorque == 2
MaxCells == 2

----------------------------------------------------------------------------
(* Floats *)

Fin(v) == [k |-> "fin", n |-> v, d |-> 1]
Rat(a, b) == [k |-> "fin", n |-> a, d |-> b]
PosInf == [k |-> "inf", n |-> 1, d |-> 1]
NegInf == [k |-> "inf", n |-> -1, d |-> 1]
NaN == [k |-> "nan", n |-> 0, d |-> 1]

IsFinite(x) == x.k = "fin"
IsNaN(x) == x.k = "nan"

Abs(i) == IF i < 0 THEN -i ELSE i
Sgn(i) == IF i < 0 THEN -1 ELSE IF i > 0 THEN 1 ELSE 0

\* x < y on floats; every comparison with NaN is false.
FLt(x, y) ==
    IF IsNaN(x) \/ IsNaN(y) THEN FALSE
    ELSE IF x.k = "inf" THEN x.n = -1 /\ ~(y.k = "inf" /\ y.n = -1)
    ELSE IF y.k = "inf" THEN y.n = 1
    ELSE x.n * y.d < y.n * x.d

FGt(x, y) == FLt(y, x)
FGe(x, y) == ~IsNaN(x) /\ ~IsNaN(y) /\ ~FLt(x, y)
FLe(x, y) == FGe(y, x)

\* x - y on floats (operands with denominator 1 when finite).
FSub(x, y) ==
    IF IsNaN(x) \/ IsNaN(y) THEN NaN
    ELSE IF x.k = "inf" /\ y.k = "inf" THEN (IF x.n = y.n THEN NaN ELSE x)
    ELSE IF x.k = "inf" THEN x
    ELSE IF y.k = "inf" THEN (IF y.n = 1 THEN NegInf ELSE PosInf)
    ELSE Fin(x.n - y.n)

\* x + y on floats (operands with denominator 1 when finite).
FAdd(x, y) ==
    IF IsNaN(x) \/ IsNaN(y) THEN NaN
    ELSE IF x.k = "inf" /\ y.k = "inf" THEN (IF x.n = y.n THEN x ELSE NaN)
    ELSE IF x.k = "inf" THEN x
    ELSE IF y.k = "inf" THEN y
    ELSE Fin(x.n + y.n)

\* s * y for a finite table value s (in thousandths) and a float y.
FMul(s, y) ==
    IF IsNaN(y) THEN NaN
    ELSE IF y.k = "inf" THEN
        (IF s = 0 THEN NaN ELSE IF Sgn(s) = y.n THEN PosInf ELSE NegInf)
    ELSE Fin(s * y.n)

\* numpy's float64 true division num / den of two finite numbers: a zero
\* divisor gives +-inf, or NaN for 0/0, with a RuntimeWarning and no exception.
TrueDivide(num, den) ==
    IF den = 0 THEN
        (IF num > 0 THEN PosInf ELSE IF num < 0 THEN NegInf ELSE NaN)
    ELSE IF den < 0 THEN Rat(-num, -den)
    ELSE Rat(num, den)

\* Faulty variant of RoundHalfEven3: the digits after the third are cut off.
RoundHalfEven3_Truncating(a, b) ==
    ((a \div b) * 1000) + (((a % b) * 1000) \div b)

\* The integer nearest to a * 1000 / b for a >= 0, b > 0, ties to even, by
\* long division (three decimal digits, then the remainder decides).
RoundHalfEven3(a, b) ==
    LET q0 == a \div b
        r0 == a % b
        d1 == (r0 * 10) \div b
        r1 == (r0 * 10) % b
        d2 == (r1 * 10) \div b
        r2 == (r1 * 10) % b
        d3 == (r2 * 10) \div b
        r3 == (r2 * 10) % b
        whole == q0 * 1000 + d1 * 100 + d2 * 10 + d3
    IN  IF 2 * r3 > b THEN whole + 1
        ELSE IF 2 * r3 = b THEN whole + (whole % 2)
        ELSE whole

\* Faulty variant of Round3: round(x, 2).
Round3_TwoDecimals(x) ==
    IF ~IsFinite(x) THEN x
    ELSE Fin(Sgn(x.n) * 10 * RoundHalfEven3(Abs(x.n), x.d * 10))

\* round(x, 3) of a numpy float64: for the exact quotient x = n/d the result
\* counted in thousandths (rint(x * 1000), ties to even); inf and NaN round
\* to themselves.
Round3(x) ==
    IF ~IsFinite(x) THEN x
    ELSE Fin(Sgn(x.n) * RoundHalfEven3(Abs(x.n), x.d))

----------------------------------------------------------------------------
(* The functions of the scripts *)

\* Faulty variant of calculate_z_height: x = (y + c) / m.
calculate_z_height_AddsIntercept(torque, slope, intercept) ==
    Round3(TrueDivide(torque * 1000 + intercept, slope))

\* calculate_z_height(torque, slope, intercept) of the Row 1 script: torque a whole number
\* (numpy int64 from torque_levels), slope and intercept in thousandths.
calculate_z_height(torque, slope, intercept) ==
    LET z_height == TrueDivide(torque * 1000 - intercept, slope)
    IN  Round3(z_height)

\* np.max / np.min of a non-empty array: NaN if any element is NaN.
RECURSIVE np_max(_)
np_max(zs) ==
    IF Len(zs) = 1 THEN zs[1]
    ELSE LET m == np_max(Tail(zs))
         IN  IF IsNaN(zs[1]) \/ IsNaN(m) THEN NaN
             ELSE IF FGt(m, zs[1]) THEN m ELSE zs[1]

\* Faulty variant of np_min: min_val = np.max(z_array).
np_min_TakesMax(zs) == np_max(zs)

RECURSIVE np_min(_)
np_min(zs) ==
    IF Len(zs) = 1 THEN zs[1]
    ELSE LET m == np_min(Tail(zs))
         IN  IF IsNaN(zs[1]) \/ IsNaN(m) THEN NaN
             ELSE IF FLt(m, zs[1]) THEN m ELSE zs[1]

\* Python's builtin max / min of a non-empty list: the first item is kept
\* until a later one compares greater / smaller.
RECURSIVE py_max_from(_, _, _)
py_max_from(xs, i, best) ==
    IF i > Len(xs) THEN best
    ELSE py_max_from(xs, i + 1, IF FGt(xs[i], best) THEN xs[i] ELSE best)

py_max(xs) == py_max_from(xs, 2, xs[1])

RECURSIVE py_min_from(_, _, _)
py_min_from(xs, i, best) ==
    IF i > Len(xs) THEN best
    ELSE py_min_from(xs, i + 1, IF FLt(xs[i], best) THEN xs[i] ELSE best)

py_min(xs) == py_min_from(xs, 2, xs[1])

\* max of a non-empty list of finite table slopes (plain integers here).
RECURSIVE max_slope_from(_, _, _)
max_slope_from(cell, i, best) ==
    IF i > Len(cell) THEN best
    ELSE max_slope_from(cell, i + 1,
                        IF cell[i].slope > best THEN cell[i].slope ELSE best)

\* steepest_slope = max([eq_data['slope'] for eq_data in cell.values()])
SteepestSlope(cell) == max_slope_from(cell, 2, cell[1].slope)

\* Faulty variant of SteepestTrial: the last match, [-1], is taken.
SteepestTrial_Last(cell, steepest) ==
    LET matches == {i \in 1..Len(cell) : cell[i].slope = steepest}
    IN  CHOOSE i \in matches : \A j \in matches : i >= j

\* steepest_trial = [name for name, eq_data in cell.items()
\*                   if eq_data['slope'] == steepest_slope][0]
SteepestTrial(cell, steepest) ==
    LET matches == {i \in 1..Len(cell) : cell[i].slope = steepest}
    IN  CHOOSE i \in matches : \A j \in matches : i <= j

\* np.mean of a non-empty list: the sum over the length.
RECURSIVE FSum(_)
FSum(xs) == IF xs = <<>> THEN Fin(0) ELSE FAdd(xs[1], FSum(Tail(xs)))

np_mean(xs) ==
    LET s == FSum(xs)
    IN  IF IsFinite(s) THEN Rat(s.n, Len(xs)) ELSE s

\* Faulty variant of calculate_z_height_r2: round(z_height, 2).
calculate_z_height_r2_TwoDecimals(torque, slope, intercept) ==
    Round3_TwoDecimals(TrueDivide(torque * 1000 - intercept, slope))

\* calculate_z_height(torque, slope, intercept) of the Row 2 script.
calculate_z_height_r2(torque, slope, intercept) ==
    LET z_height == TrueDivide(torque * 1000 - intercept, slope)
    IN  Round3(z_height)

\* Row 1, the body of the per-torque loop over cell_1_equations: the row
\* [torque, one Z-height per trial, min, max, range, uncertainty] and the
\* steepest slope and trial it leaves behind.
R1_LoopBody(torque, cell_1_equations) ==
    LET z_heights_for_torque ==
            [i \in 1..Len(cell_1_equations) |->
                calculate_z_height(torque, cell_1_equations[i].slope,
                                   cell_1_equations[i].intercept)]
        min_val == np_min(z_heights_for_torque)
        max_val == np_max(z_heights_for_torque)
        range_val == FSub(max_val, min_val)
        steepest == SteepestSlope(cell_1_equations)
        torque_uncertainty == FMul(steepest, range_val)
    IN  [row_data |-> <<torque>> \o z_heights_for_torque
                        \o <<min_val, max_val, range_val, torque_uncertainty>>,
         z_heights_for_torque |-> z_heights_for_torque,
         steepest_slope |-> steepest,
         steepest_trial |-> SteepestTrial(cell_1_equations, steepest)]

\* Faulty variant of R2_Row: the row is scaled by the slope of the cell's
\* first trial instead of the cell's steepest slope.
R2_Row_ScaledByFirstTrial(torque, cell_equations) ==
    LET z_heights_for_torque ==
            [i \in 1..Len(cell_equations) |->
                calculate_z_height_r2(torque, cell_equations[i].slope,
                                      cell_equations[i].intercept)]
        min_val == np_min(z_heights_for_torque)
        max_val == np_max(z_heights_for_torque)
        range_val == FSub(max_val, min_val)
    IN  <<torque>> \o z_heights_for_torque
            \o <<min_val, max_val, range_val,
                 FMul(cell_equations[1].slope, range_val)>>

\* Row 2, one row of analyze_cell_uncertainty.
R2_Row(torque, cell_equations) ==
    LET z_heights_for_torque ==
            [i \in 1..Len(cell_equations) |->
                calculate_z_height_r2(torque, cell_equations[i].slope,
                                      cell_equations[i].intercept)]
        min_val == np_min(z_heights_for_torque)
        max_val == np_max(z_heights_for_torque)
        range_val == FSub(max_val, min_val)
        steepest == SteepestSlope(cell_equations)
        torque_uncertainty == FMul(steepest, range_val)
    IN  <<torque>> \o z_heights_for_torque
            \o <<min_val, max_val, range_val, torque_uncertainty>>

\* Faulty variant of analyze_cell_uncertainty: the rows come out in the
\* reverse order of torque_levels.
analyze_cell_uncertainty_Reversed(cell_equations, levels) ==
    [t \in 1..Len(levels) |-> R2_Row(levels[Len(levels) + 1 - t], cell_equations)]

\* analyze_cell_uncertainty(cell_name, cell_equations): one row per torque
\* level of the global torque_levels, in order.
analyze_cell_uncertainty(cell_equations, levels) ==
    [t \in 1..Len(levels) |-> R2_Row(levels[t], cell_equations)]

\* Faulty variant of AllUncertainties: row[-2], the range, is read.
AllUncertainties_ReadsRange(rows) ==
    [i \in 1..Len(rows) |-> rows[i][Len(rows[i]) - 1]]

\* all_uncertainties = [row[-1] for row in results_data]
AllUncertainties(rows) == [i \in 1..Len(rows) |-> rows[i][Len(rows[i])]]

\* Row 1: status = "LOW" if uncertainty < 0.2 else "MEDIUM" if uncertainty < 0.5
\*        else "HIGH"   (uncertainty in millionths)
LowThreshold == 200000
MediumThreshold == 500000

\* Faulty variant of R1_Status: the thresholds are inclusive (<=).
R1_Status_Inclusive(uncertainty) ==
    IF FLe(uncertainty, Fin(LowThreshold)) THEN "LOW"
    ELSE IF FLe(uncertainty, Fin(MediumThreshold)) THEN "MEDIUM"
    ELSE "HIGH"

R1_Status(uncertainty) ==
    IF FLt(uncertainty, Fin(LowThreshold)) THEN "LOW"
    ELSE IF FLt(uncertainty, Fin(MediumThreshold)) THEN "MEDIUM"
    ELSE "HIGH"

\* Row 2: the performance assessment of a cell by its maximum uncertainty.
ExcellentThreshold == 5000000
GoodThreshold == 10000000
AcceptableThreshold == 20000000

\* Faulty variant of R2_Performance: the limits are inclusive.
R2_Performance_Inclusive(max_uncertainty) ==
    IF FLe(max_uncertainty, Fin(ExcellentThreshold)) THEN "EXCELLENT"
    ELSE IF FLe(max_uncertainty, Fin(GoodThreshold)) THEN "GOOD"
    ELSE IF FLe(max_uncertainty, Fin(AcceptableThreshold)) THEN "ACCEPTABLE"
    ELSE "NEEDS ATTENTION"

R2_Performance(max_uncertainty) ==
    IF FLt(max_uncertainty, Fin(ExcellentThreshold)) THEN "EXCELLENT"
    ELSE IF FLt(max_uncertainty, Fin(GoodThreshold)) THEN "GOOD"
    ELSE IF FLt(max_uncertainty, Fin(AcceptableThreshold)) THEN "ACCEPTABLE"
    ELSE "NEEDS ATTENTION"

----------------------------------------------------------------------------
(* The tables of the source, in thousandths *)

Row1Equations ==
    <<
       << [slope |-> 117200, intercept |-> -7722002],
          [slope |-> 91571, intercept |-> -6008560],
          [slope |-> 92900, intercept |-> -6105849],
          [slope |-> 89057, intercept |-> -5849702] >>,
       << [slope |-> 79705, intercept |-> -5217116],
          [slope |-> 89276, intercept |-> -5840457],
          [slope |-> 88438, intercept |-> -5784236],
          [slope |-> 85000, intercept |-> -5556020] >>,
       << [slope |-> 61893, intercept |-> -4031049],
          [slope |-> 89500, intercept |-> -5849869],
          [slope |-> 87933, intercept |-> -5745053],
          [slope |-> 106133, intercept |-> -6950891] >>,
       << [slope |-> 104633, intercept |-> -6864468],
          [slope |-> 90267, intercept |-> -5913411],
          [slope |-> 79895, intercept |-> -5227275],
          [slope |-> 81833, intercept |-> -5353966] >>,
       << [slope |-> 202667, intercept |-> -13305203],
          [slope |-> 186167, intercept |-> -12207618],
          [slope |-> 125367, intercept |-> -8187536],
          [slope |-> 85981, intercept |-> -5605991] >>,
       << [slope |-> 94700, intercept |-> -6221678],
          [slope |-> 90067, intercept |-> -5904849],
          [slope |-> 90590, intercept |-> -5947949],
          [slope |-> 87433, intercept |-> -5738806] >>
    >>

Row1TorqueLevels == <<45, 47, 49, 51, 53>>

Row2Equations ==
    <<
       << [slope |-> 87767, intercept |-> -5759814],
          [slope |-> 135833, intercept |-> -8941347],
          [slope |-> 89133, intercept |-> -5838821],
          [slope |-> 84895, intercept |-> -5557924] >>,
       << [slope |-> 89848, intercept |-> -5873516],
          [slope |-> 89767, intercept |-> -5867689],
          [slope |-> 84867, intercept |-> -5541969],
          [slope |-> 85600, intercept |-> -5589990] >>,
       << [slope |-> 90657, intercept |-> -5921408],
          [slope |-> 93767, intercept |-> -6128208],
          [slope |-> 88867, intercept |-> -5801210],
          [slope |-> 87552, intercept |-> -5714667] >>,
       << [slope |-> 90933, intercept |-> -5922497],
          [slope |-> 92267, intercept |-> -6010167],
          [slope |-> 89933, intercept |-> -5853865],
          [slope |-> 91543, intercept |-> -5960168] >>,
       << [slope |-> 94700, intercept |-> -6176787],
          [slope |-> 99500, intercept |-> -6502016],
          [slope |-> 93600, intercept |-> -6102294],
          [slope |-> 94567, intercept |-> -6165921] >>,
       << [slope |-> 90767, intercept |-> -5940868],
          [slope |-> 96767, intercept |-> -6327421],
          [slope |-> 90305, intercept |-> -5898003],
          [slope |-> 88900, intercept |-> -5804552] >>
    >>

Row2TorqueLevels == <<42, 45, 48, 51, 54, 57>>

----------------------------------------------------------------------------
(* Inputs: the two tables of the source and every small table.  Row 1 reads
   Cell 1 only, so its small tables hold one cell. *)

\* Non-zero slopes (calculate_z_height's precondition) and intercepts, in
\* thousandths.
Slopes == {-4000, -1000, 1000, 3000}
Intercepts == {0, 150, 350, 500}

TrialFits(slopes) == [slope : slopes, intercept : Intercepts]

\* A cell: 1..MaxTrials trial fits, in the trial order of the mapping; the
\* trials after the second pass through the origin.
CellTables(slopes) ==
    UNION {{c \in [1..n -> TrialFits(slopes)] :
                \A i \in 3..n : c[i].intercept = 0} : n \in 1..MaxTrials}

\* The cells of a table of several cells: two trials, the first through the
\* origin.
PoolCells(slopes) ==
    {c \in [1..2 -> TrialFits(slopes)] :
        c[1].intercept = 0 /\ c[2].intercept = 500}

\* Tables of one cell and of 2..MaxCells cells; in the cells after the
\* second the first trial has slope 1.000.
EquationTables(slopes) ==
    {<<c>> : c \in CellTables(slopes)}
        \cup UNION {{t \in [1..n -> PoolCells(slopes)] :
                        \A i \in 3..n : t[i][1].slope = 1000} :
                    n \in 2..MaxCells}

\* Torque levels: 1..MaxLevels increasing whole numbers of 0..MaxTorque.
TorqueLists ==
    UNION {{t \in [1..n -> 0..MaxTorque] :
                \A i \in 1..(n - 1) : t[i] < t[i + 1]} : n \in 1..MaxLevels}

Inputs(slopes) ==
    {[script |-> "row1", eqs |-> Row1Equations, levels |-> Row1TorqueLevels],
     [script |-> "row2", eqs |-> Row2Equations, levels |-> Row2TorqueLevels]}
        \cup [script : {"row1"}, eqs : {<<c>> : c \in CellTables(slopes)},
              levels : TorqueLists]
        \cup [script : {"row2"}, eqs : EquationTables(slopes),
              levels : TorqueLists]

Unset == [k |-> "none", n |-> 0, d |-> 1]

\* Row 2 tables whose maximum uncertainties fall on, next to and between the
\* limits of the performance assessment: with slope 1.000 the uncertainty of
\* a two-trial cell is the distance of its intercepts.
PerformanceIntercepts == {0, 1, 5000, 7000, 10000, 20000}

PerformanceCells ==
    UNION {[1..n -> [slope : {1000}, intercept : PerformanceIntercepts]] :
                n \in 1..MaxTrials}

PerformanceInputs ==
    [script : {"row1", "row2"}, eqs : {<<c>> : c \in PerformanceCells},
     levels : TorqueLists]
        \cup [script : {"row2"},
              eqs : {<<c, d>> : c \in {x \in PerformanceCells :
                                            Len(x) = 2 /\ x[1].intercept = 0},
                                d \in {x \in PerformanceCells : Len(x) = 2}},
              levels : TorqueLists]

\* No table is in place before a fitting script has started.
NoTable == [headers |-> <<>>, columns |-> <<>>, rows |-> <<>>]

\* The state of a fitting script before its first statement.
FitStart ==
    /\ fpc = "load"
    /\ fi = 1
    /\ attempts = <<>>
    /\ trial_data = <<>>
    /\ printed = <<>>
    /\ pi = 1
    /\ fit_calls = <<>>
    /\ axes = <<>>
    /\ all_equations = <<>>
    /\ summary_table = NoTable
    /\ statistics = <<>>

\* An uncertainty script runs on its own: no fitting script is running.
FitIdle ==
    /\ fscript = "none"
    /\ files = <<>>
    /\ FitStart

InitFrom(inputs) ==
    /\ FitIdle
    /\ \E in \in inputs :
        /\ script = in.script
        /\ all_cells_equations = in.eqs
        /\ torque_levels = in.levels
    /\ pc = IF script = "row1" THEN "r1_loop" ELSE "r2_analyze"
    /\ ti = 1
    /\ results_data = <<>>
    /\ z_height_matrix = <<>>
    /\ steepest_slope = 0
    /\ steepest_trial = 0
    /\ summary = [max |-> Unset, min |-> Unset, avg |-> Unset]
    /\ si = 1
    /\ status_out = <<>>
    /\ all_results = <<>>
    /\ ci = 1
    /\ cell_summaries = <<>>

InitWith(slopes) == InitFrom(Inputs(slopes))

Init == InitWith(Slopes)

\* The runs over the tables of the performance assessment.
InitPerformance == InitFrom(PerformanceInputs)

\* The same with degenerate fits (slope 0) in the tables.
InitDegenerate == InitWith(Slopes \cup {0})

----------------------------------------------------------------------------
(* Row 1: Uncertainity.py *)

\* One iteration of `for torque in torque_levels`.
R1_TorqueLoop ==
    /\ pc = "r1_loop"
    /\ ti <= Len(torque_levels)
    /\ LET body == R1_LoopBody(torque_levels[ti], all_cells_equations[1])
       IN  /\ results_data' = Append(results_data, body.row_data)
           /\ z_height_matrix' = Append(z_height_matrix, body.z_heights_for_torque)
           /\ steepest_slope' = body.steepest_slope
           /\ steepest_trial' = body.steepest_trial
    /\ ti' = ti + 1
    /\ pc' = IF ti = Len(torque_levels) THEN "r1_summary" ELSE "r1_loop"
    /\ UNCHANGED fitVars
    /\ UNCHANGED <<script, all_cells_equations, torque_levels, summary, si,
                   status_out, all_results, ci, cell_summaries>>

\* The overall statistics and the steepest slope of the summary.
R1_Summary ==
    /\ pc = "r1_summary"
    /\ LET all_uncertainties == AllUncertainties(results_data)
       IN  summary' = [max |-> py_max(all_uncertainties),
                       min |-> py_min(all_uncertainties),
                       avg |-> np_mean(all_uncertainties)]
    /\ steepest_slope' = SteepestSlope(all_cells_equations[1])
    /\ steepest_trial' =
            SteepestTrial(all_cells_equations[1],
                          SteepestSlope(all_cells_equations[1]))
    /\ si' = 1
    /\ pc' = "r1_status"
    /\ UNCHANGED fitVars
    /\ UNCHANGED <<script, all_cells_equations, torque_levels, ti, results_data,
                   z_height_matrix, status_out, all_results, ci, cell_summaries>>

\* One iteration of `for i, torque in enumerate(torque_levels)`.
R1_PerTorqueStatus ==
    /\ pc = "r1_status"
    /\ si <= Len(torque_levels)
    /\ LET uncertainty == results_data[si][Len(results_data[si])]
       IN  status_out' = Append(status_out, R1_Status(uncertainty))
    /\ si' = si + 1
    /\ pc' = IF si = Len(torque_levels) THEN "done" ELSE "r1_status"
    /\ UNCHANGED fitVars
    /\ UNCHANGED <<script, all_cells_equations, torque_levels, ti, results_data,
                   z_height_matrix, steepest_slope, steepest_trial, summary,
                   all_results, ci, cell_summaries>>

----------------------------------------------------------------------------
(* Row 2: R2_Uncertainity10K.py *)

\* One iteration of `for cell_name, cell_equations in all_cells_equations.items()`.
R2_Analyze ==
    /\ pc = "r2_analyze"
    /\ ci <= Len(all_cells_equations)
    /\ all_results' =
            Append(all_results,
                   analyze_cell_uncertainty(all_cells_equations[ci], torque_levels))
    /\ ci' = IF ci = Len(all_cells_equations) THEN 1 ELSE ci + 1
    /\ pc' = IF ci = Len(all_cells_equations) THEN "r2_summary" ELSE "r2_analyze"
    /\ UNCHANGED fitVars
    /\ UNCHANGED <<script, all_cells_equations, torque_levels, ti, results_data,
                   z_height_matrix, steepest_slope, steepest_trial, summary, si,
                   status_out, cell_summaries>>

\* One iteration of `for cell_name, results_data in all_results.items()`.
R2_Summary ==
    /\ pc = "r2_summary"
    /\ ci <= Len(all_results)
    /\ LET cell_equations == all_cells_equations[ci]
           all_uncertainties == AllUncertainties(all_results[ci])
           max_uncertainty == py_max(all_uncertainties)
           steepest == SteepestSlope(cell_equations)
       IN  cell_summaries' =
                Append(cell_summaries,
                       [max |-> max_uncertainty,
                        min |-> py_min(all_uncertainties),
                        avg |-> np_mean(all_uncertainties),
                        steepest_slope |-> steepest,
                        steepest_trial |-> SteepestTrial(cell_equations, steepest),
                        status |-> R2_Performance(max_uncertainty)])
    /\ ci' = ci + 1
    /\ pc' = IF ci = Len(all_results) THEN "done" ELSE "r2_summary"
    /\ UNCHANGED fitVars
    /\ UNCHANGED <<script, all_cells_equations, torque_levels, ti, results_data,
                   z_height_matrix, steepest_slope, steepest_trial, summary, si,
                   status_out, all_results>>

Next ==
    \/ R1_TorqueLoop
    \/ R1_Summary
    \/ R1_PerTorqueStatus
    \/ R2_Analyze
    \/ R2_Summary

Spec == Init /\ [][Next]_vars

SpecDegenerate == InitDegenerate /\ [][Next]_vars

SpecPerformance == InitPerformance /\ [][Next]_vars

----------------------------------------------------------------------------
(* The fitting scripts: Row1DataSummary/fit_all.py and curvefit.py         *)
(*                                                                         *)
(* A table (DataFrame) is a sequence of rows [z, torque]: z is the         *)
(* Z-Height of the row and torque[c] the entry of column Cell_c_Torque,    *)
(* a record [null, v] (null for an empty spreadsheet entry).  A dict is    *)
(* the sequence of its items [key, value] in insertion order.              *)

\* The spreadsheet has a torque column per cell (six in the source).
NumColumns == 2
\* The greatest number of rows of a trial table.
MaxRows == 2

\* trial_files = ['Trial1.xlsx', 'Trial2.xlsx', 'Trial3.xlsx', 'Trial4.xlsx']
NumTrialFiles == 4

\* The torque range of the filter: (df[column] >= 42) & (df[column] <= 57)
LowTorque == 42
HighTorque == 57

NullTorque == [null |-> TRUE, v |-> 0]
Torque(v) == [null |-> FALSE, v |-> v]

\* Faulty variant of Put: the value is stored under the next free number.
Put_UnderNextNumber(dict, key, value) ==
    Append(dict, [key |-> Len(dict) + 1, value |-> value])

\* dict helpers
Keys(dict) == {dict[i].key : i \in 1..Len(dict)}
Lookup(dict, key) == dict[CHOOSE i \in 1..Len(dict) : dict[i].key = key].value
Put(dict, key, value) ==
    IF key \in Keys(dict)
    THEN [i \in 1..Len(dict) |->
            IF dict[i].key = key THEN [key |-> key, value |-> value] ELSE dict[i]]
    ELSE Append(dict, [key |-> key, value |-> value])

\* sorted(keys)
RECURSIVE sorted(_)
sorted(keys) ==
    IF keys = {} THEN <<>>
    ELSE LET least == CHOOSE k \in keys : \A other \in keys : k <= other
         IN  <<least>> \o sorted(keys \ {least})

\* Faulty variant of mask: the upper limit is exclusive (< 57).
mask_UpperExclusive(df, column) ==
    [j \in 1..Len(df) |->
        /\ ~df[j].torque[column].null
        /\ df[j].torque[column].v >= LowTorque
        /\ df[j].torque[column].v < HighTorque]

\* fit_all.py: mask = (df[column].notna()) & (df[column] >= 42) & (df[column] <= 57)
mask(df, column) ==
    [j \in 1..Len(df) |->
        /\ ~df[j].torque[column].null
        /\ df[j].torque[column].v >= LowTorque
        /\ df[j].torque[column].v <= HighTorque]

\* curvefit.py: the same mask.
cf_mask(df, column) ==
    [j \in 1..Len(df) |->
        /\ ~df[j].torque[column].null
        /\ df[j].torque[column].v >= LowTorque
        /\ df[j].torque[column].v <= HighTorque]

\* Faulty variant of any: only the first row is looked at.
any_FirstRowOnly(m) == Len(m) >= 1 /\ m[1]

\* mask.any() and mask.sum()
any(m) == \E j \in 1..Len(m) : m[j]
sum(m) == Cardinality({j \in 1..Len(m) : m[j]})

\* df.loc[mask]: the rows of df whose mask entry is True, in their order.
RECURSIVE loc_from(_, _, _)
loc_from(df, m, j) ==
    IF j > Len(df) THEN <<>>
    ELSE (IF m[j] THEN <<df[j]>> ELSE <<>>) \o loc_from(df, m, j + 1)

loc(df, m) == loc_from(df, m, 1)

\* Faulty variant of CellData: the Z-Height is taken as stored, not times -1.
CellData_KeepsSign(df, m, column) ==
    LET rows == loc(df, m)
    IN  [z_height |-> [j \in 1..Len(rows) |-> rows[j].z],
         torque |-> [j \in 1..Len(rows) |-> rows[j].torque[column].v]]

\* z_height_positive = df.loc[mask, 'Z-Height'] * -1
\* torque_values = df.loc[mask, column]
CellData(df, m, column) ==
    LET rows == loc(df, m)
    IN  [z_height |-> [j \in 1..Len(rows) |-> rows[j].z * (-1)],
         torque |-> [j \in 1..Len(rows) |-> rows[j].torque[column].v]]

\* stats.linregress(x, y).  The least-squares line itself is left symbolic:
\* the fit is identified by the samples it was computed from.  SciPy rejects,
\* with a ValueError, two or more samples whose x values are all identical.
linregress(x, y) ==
    [raised |-> Len(x) > 1 /\ \A i \in 1..Len(x) : x[i] = x[1],
     x |-> x, y |-> y]

\* The columns, from `column` on, that have a sample in range: the keys of
\* cell_data in insertion order.  masks[c] is the mask of column c.
RECURSIVE cells_with_data(_, _)
cells_with_data(masks, column) ==
    IF column > NumColumns THEN <<>>
    ELSE (IF any(masks[column]) THEN <<column>> ELSE <<>>)
            \o cells_with_data(masks, column + 1)

\* The calls of linregress of `for i, data in cell_data.items()`, up to the
\* first one that raises.
RECURSIVE fits_from(_, _, _, _, _)
fits_from(masks, trial_num, df, cells, n) ==
    IF n > Len(cells) THEN <<>>
    ELSE LET data == CellData(df, masks[cells[n]], cells[n])
             fit == linregress(data.z_height, data.torque)
             call == [trial |-> trial_num, cell |-> cells[n], fit |-> fit]
         IN  IF fit.raised THEN <<call>>
             ELSE <<call>> \o fits_from(masks, trial_num, df, cells, n + 1)

\* The body of the loop over the torque columns and of the loop over
\* cell_data for one table: what is printed per column, the fits, the
\* equations kept for the trial and what the subplot shows.
FilterAndFit(masks, trial_num, df) ==
    LET cells == cells_with_data(masks, 1)
        has_data == cells # <<>>
        calls == fits_from(masks, trial_num, df, cells, 1)
    IN  [has_data |-> has_data,
         prints |-> [c \in 1..NumColumns |->
                        IF any(masks[c])
                        THEN [msg |-> "data points in range", trial |-> trial_num,
                              cell |-> c, n |-> sum(masks[c])]
                        ELSE [msg |-> "No data points in range", trial |-> trial_num,
                              cell |-> c, n |-> 0]],
         calls |-> calls,
         raised |-> \E n \in 1..Len(calls) : calls[n].fit.raised,
         trial_equations |-> [n \in 1..Len(calls) |->
                                [key |-> calls[n].cell, value |-> calls[n].fit]],
         subplot |-> IF has_data THEN "plot" ELSE "placeholder"]

\* A table entry without an equation.
NoFit == [raised |-> FALSE, x |-> <<>>, y |-> <<>>]

\* The rows of the summary table: for each cell, one entry per trial of
\* sorted(all_equations.keys()).
TableRows(equations) ==
    [cell \in 1..NumColumns |->
        [j \in 1..Len(sorted(Keys(equations))) |->
            LET trial_num == sorted(Keys(equations))[j]
                trial_equations == Lookup(equations, trial_num)
            IN  IF cell \in Keys(trial_equations)
                THEN [text |-> "equation", fit |-> Lookup(trial_equations, cell)]
                ELSE [text |-> "No data in range", fit |-> NoFit]]]

\* Faulty variant of trial_cols: the headers are the loaded trial numbers.
trial_cols_OfLoadedTrials(data) == sorted(Keys(data))

\* trial_cols = [f'Trial {i}' for i in range(1, len(trial_data) + 1)]
\* (the header 'Trial i' is kept as i)
trial_cols(data) == [i \in 1..Len(data) |-> i]

\* The statistics printed for one table.
TableStatistics(trial_num, df) ==
    [trial |-> trial_num,
     shape |-> Len(df),
     range_count |-> [c \in 1..NumColumns |-> sum(mask(df, c))]]

----------------------------------------------------------------------------
(* Inputs of the fitting scripts *)

\* A trial file: where it lies ("script_dir", "cwd" or nowhere), whether
\* pd.read_excel can read it, and the table it holds.
Missing == [at |-> "missing", ok |-> FALSE, df |-> <<>>]
Unreadable == [at |-> "cwd", ok |-> FALSE, df |-> <<>>]
Present(at, df) == [at |-> at, ok |-> TRUE, df |-> df]

\* Torque entries: empty, just below, on and just above the limits.
TorqueValues == <<NullTorque, Torque(41), Torque(42), Torque(57), Torque(58)>>

\* The torque entries of a row: the columns run through TorqueValues from
\* the k-th value on.
Pattern(k) ==
    [c \in 1..NumColumns |-> TorqueValues[((k + c - 2) % Len(TorqueValues)) + 1]]

ZHeights == {-z : z \in 1..(MaxRows + 1)}

\* Tables of up to MaxRows rows, each row at a Z-Height of its own (a trial
\* is a sweep over the Z-Height).
TrialTables ==
    UNION {{t \in [1..n -> [z : ZHeights,
                            torque : {Pattern(k) : k \in 1..Len(TorqueValues)}]] :
                \A i, j \in 1..n : i # j => t[i].z # t[j].z} : n \in 0..MaxRows}

\* Two one-row tables, one with samples in range and one without.
PoolTables == {<<[z |-> -1, torque |-> Pattern(k)]>> : k \in {3, 5}}

FitInputs ==
    [script : {"fit_all"},
     files : [1..NumTrialFiles ->
                {Missing, Unreadable}
                    \cup {Present(at, t) : at \in {"script_dir", "cwd"},
                                           t \in PoolTables}]]
        \cup [script : {"fit_all"},
              files : {[k \in 1..NumTrialFiles |->
                            IF k = p THEN Present("cwd", t) ELSE Missing] :
                        p \in 1..NumTrialFiles, t \in TrialTables}]
        \cup [script : {"curvefit"},
              files : {<<f>> : f \in {Missing, Unreadable}
                        \cup {Present(at, t) : at \in {"script_dir", "cwd"},
                                               t \in TrialTables}}]

\* A fitting script runs on its own: no uncertainty script is running.
UncertaintyIdle ==
    /\ script = "none"
    /\ all_cells_equations = <<>>
    /\ torque_levels = <<>>
    /\ pc = "idle"
    /\ ti = 1
    /\ results_data = <<>>
    /\ z_height_matrix = <<>>
    /\ steepest_slope = 0
    /\ steepest_trial = 0
    /\ summary = [max |-> Unset, min |-> Unset, avg |-> Unset]
    /\ si = 1
    /\ status_out = <<>>
    /\ all_results = <<>>
    /\ ci = 1
    /\ cell_summaries = <<>>

InitFit ==
    /\ UncertaintyIdle
    /\ \E in \in FitInputs :
        /\ fscript = in.script
        /\ files = in.files
    /\ FitStart

----------------------------------------------------------------------------
(* fit_all.py *)

\* One iteration of `for i, filename in enumerate(trial_files)`.
F_Load ==
    /\ fscript = "fit_all"
    /\ fpc = "load"
    /\ fi <= NumTrialFiles
    /\ attempts' = Append(attempts, fi)
    /\ IF files[fi].at = "missing"
       THEN /\ printed' = Append(printed, [msg |-> "not found, skipping",
                                           trial |-> fi, cell |-> 0, n |-> 0])
            /\ UNCHANGED trial_data
       ELSE IF ~files[fi].ok
       THEN /\ printed' = Append(printed, [msg |-> "Error loading",
                                           trial |-> fi, cell |-> 0, n |-> 0])
            /\ UNCHANGED trial_data
       ELSE /\ trial_data' = Put(trial_data, fi, files[fi].df)
            /\ printed' = Append(printed, [msg |-> "loaded successfully",
                                           trial |-> fi, cell |-> 0,
                                           n |-> Len(files[fi].df)])
    /\ fi' = fi + 1
    /\ fpc' = IF fi = NumTrialFiles THEN "check" ELSE "load"
    /\ UNCHANGED uncVars
    /\ UNCHANGED <<fscript, files, pi, fit_calls, axes, all_equations,
                   summary_table, statistics>>

\* Faulty variant of F_CheckLoaded: the script goes on without a trial.
F_CheckLoaded_NoExit ==
    /\ fscript = "fit_all"
    /\ fpc = "check"
    /\ axes' = [k \in 1..NumTrialFiles |-> "empty"]
    /\ fpc' = IF trial_data = <<>> THEN "table" ELSE "process"
    /\ UNCHANGED uncVars
    /\ UNCHANGED <<fscript, files, fi, attempts, trial_data, printed, pi,
                   fit_calls, all_equations, summary_table, statistics>>

\* `if not trial_data: ... exit()`, else the figure with its four subplots.
F_CheckLoaded ==
    /\ fscript = "fit_all"
    /\ fpc = "check"
    /\ IF trial_data = <<>>
       THEN /\ printed' = Append(printed, [msg |-> "No trial data found!",
                                           trial |-> 0, cell |-> 0, n |-> 0])
            /\ fpc' = "exited"
            /\ UNCHANGED axes
       ELSE /\ axes' = [k \in 1..NumTrialFiles |-> "empty"]
            /\ fpc' = "process"
            /\ UNCHANGED printed
    /\ UNCHANGED uncVars
    /\ UNCHANGED <<fscript, files, fi, attempts, trial_data, pi, fit_calls,
                   all_equations, summary_table, statistics>>

\* One iteration of `for trial_num, df in trial_data.items()`.
F_ProcessTrial ==
    /\ fscript = "fit_all"
    /\ fpc = "process"
    /\ pi <= Len(trial_data)
    /\ LET trial_num == trial_data[pi].key
           df == trial_data[pi].value
           body == FilterAndFit([c \in 1..NumColumns |-> mask(df, c)],
                                trial_num, df)
       IN  /\ printed' = printed \o body.prints
           /\ fit_calls' = fit_calls \o body.calls
           /\ IF body.raised
              THEN /\ fpc' = "failed"
                   /\ UNCHANGED <<axes, all_equations, pi>>
              ELSE /\ axes' = [axes EXCEPT ![trial_num] = body.subplot]
                   /\ all_equations' =
                        Put(all_equations, trial_num, body.trial_equations)
                   /\ pi' = pi + 1
                   /\ fpc' = IF pi = Len(trial_data) THEN "table" ELSE "process"
    /\ UNCHANGED uncVars
    /\ UNCHANGED <<fscript, files, fi, attempts, trial_data, summary_table,
                   statistics>>

\* The summary table of equations.
F_SummaryTable ==
    /\ fscript = "fit_all"
    /\ fpc = "table"
    /\ summary_table' = [headers |-> trial_cols(trial_data),
                         columns |-> sorted(Keys(all_equations)),
                         rows |-> TableRows(all_equations)]
    /\ fpc' = "statistics"
    /\ UNCHANGED uncVars
    /\ UNCHANGED <<fscript, files, fi, attempts, trial_data, printed, pi,
                   fit_calls, axes, all_equations, statistics>>

\* The summary statistics of every loaded trial and the closing message.
F_Statistics ==
    /\ fscript = "fit_all"
    /\ fpc = "statistics"
    /\ statistics' = [i \in 1..Len(trial_data) |->
                        TableStatistics(trial_data[i].key, trial_data[i].value)]
    /\ printed' = Append(printed, [msg |-> "Plot created successfully",
                                   trial |-> 0, cell |-> 0,
                                   n |-> Len(trial_data)])
    /\ fpc' = "done"
    /\ UNCHANGED uncVars
    /\ UNCHANGED <<fscript, files, fi, attempts, trial_data, pi, fit_calls,
                   axes, all_equations, summary_table>>

----------------------------------------------------------------------------
(* curvefit.py *)

\* try: df = pd.read_excel('Trial1.xlsx') ... and the test `if 'df' in locals()`.
C_Load ==
    /\ fscript = "curvefit"
    /\ fpc = "load"
    /\ attempts' = Append(attempts, 1)
    /\ IF files[1].at # "cwd"
       THEN /\ printed' = Append(printed, [msg |-> "file not found",
                                           trial |-> 1, cell |-> 0, n |-> 0])
            /\ fpc' = "done"
            /\ UNCHANGED trial_data
       ELSE IF ~files[1].ok
       THEN /\ printed' = Append(printed, [msg |-> "Error loading data",
                                           trial |-> 1, cell |-> 0, n |-> 0])
            /\ fpc' = "done"
            /\ UNCHANGED trial_data
       ELSE /\ trial_data' = Put(trial_data, 1, files[1].df)
            /\ printed' = Append(printed, [msg |-> "Data loaded successfully",
                                           trial |-> 1, cell |-> 0,
                                           n |-> Len(files[1].df)])
            /\ fpc' = "process"
    /\ UNCHANGED uncVars
    /\ UNCHANGED <<fscript, files, fi, pi, fit_calls, axes, all_equations,
                   summary_table, statistics>>

\* The filter, the fits and the plot of the one table.
C_Process ==
    /\ fscript = "curvefit"
    /\ fpc = "process"
    /\ LET df == Lookup(trial_data, 1)
           body == FilterAndFit([c \in 1..NumColumns |-> cf_mask(df, c)], 1, df)
       IN  /\ printed' = printed \o body.prints
           /\ fit_calls' = fit_calls \o body.calls
           /\ IF body.raised
              THEN /\ fpc' = "failed"
                   /\ UNCHANGED axes
              ELSE /\ axes' = <<body.subplot>>
                   /\ fpc' = "statistics"
    /\ UNCHANGED uncVars
    /\ UNCHANGED <<fscript, files, fi, attempts, trial_data, pi, all_equations,
                   summary_table, statistics>>

\* The summary statistics of the table.
C_Statistics ==
    /\ fscript = "curvefit"
    /\ fpc = "statistics"
    /\ statistics' = <<TableStatistics(1, Lookup(trial_data, 1))>>
    /\ fpc' = "done"
    /\ UNCHANGED uncVars
    /\ UNCHANGED <<fscript, files, fi, attempts, trial_data, printed, pi,
                   fit_calls, axes, all_equations, summary_table>>

NextFit ==
    \/ F_Load
    \/ F_CheckLoaded
    \/ F_ProcessTrial
    \/ F_SummaryTable
    \/ F_Statistics
    \/ C_Load
    \/ C_Process
    \/ C_Statistics

SpecFit == InitFit /\ [][NextFit]_vars


----------------------------------------------------------------------------
(* Reading the results *)

\* The cells analysed so far and the rows of each.
AnalysedCells == IF script = "row1" THEN {1} ELSE 1..Len(all_results)
Rows(c) == IF script = "row1" THEN results_data ELSE all_results[c]

NumTrials(row) == Len(row) - 5
RowTorque(row) == row[1]
RowZ(row, i) == row[1 + i]
RowZs(row) == {row[1 + i] : i \in 1..NumTrials(row)}
RowMin(row) == row[Len(row) - 3]
RowMax(row) == row[Len(row) - 2]
RowRange(row) == row[Len(row) - 1]
RowUncertainty(row) == row[Len(row)]

\* Every (cell, row index) analysed so far.
AnalysedRows ==
    UNION {{<<c, r>> : r \in 1..Len(Rows(c))} : c \in AnalysedCells}

\* The largest slope magnitude of a cell.
MaxAbsSlope(cell) ==
    CHOOSE m \in {Abs(cell[i].slope) : i \in 1..Len(cell)} :
        \A i \in 1..Len(cell) : Abs(cell[i].slope) <= m

\* slope * z + intercept - torque in millionths, for z in thousandths,
\* computed without leaving the range of the model's integers.
ForwardError(torque, slope, intercept, z) ==
    slope * (z % 1000)
        + 1000 * (slope * (z \div 1000) + intercept - 1000 * torque)

----------------------------------------------------------------------------
(* C1 *)

\* C1: for every cell and torque level the row's range is max - min and its
\* uncertainty is (the largest slope magnitude of the cell) * range.
\* The scripts take max(slope), not max(|slope|): violated by a cell whose
\* steepest trial has a negative slope.
C1_UncertaintyIsMaxAbsSlopeTimesRange ==
    \A cr \in AnalysedRows :
        LET cell == all_cells_equations[cr[1]]
            row == Rows(cr[1])[cr[2]]
        IN  /\ RowRange(row) = FSub(RowMax(row), RowMin(row))
            /\ RowUncertainty(row) = FMul(MaxAbsSlope(cell), RowRange(row))

----------------------------------------------------------------------------
(* C2 *)

\* (torque - intercept) * 1000 - z * slope, the distance of z thousandths from
\* the exact quotient scaled by the slope, within the model's integers.
QuotientResidual(torque, slope, intercept, z) ==
    1000 * ((torque * 1000 - intercept) - (z \div 1000) * slope)
        - (z % 1000) * slope

\* C2: for a non-zero slope every Z-height of every row is a finite whole
\* number of thousandths within 0.0005 of (torque - intercept) / slope.
C2_ZHeightIsQuotientRoundedTo3 ==
    \A cr \in AnalysedRows :
        LET cell == all_cells_equations[cr[1]]
            row == Rows(cr[1])[cr[2]]
        IN  \A i \in 1..Len(cell) :
                cell[i].slope # 0 =>
                    /\ IsFinite(RowZ(row, i))
                    /\ RowZ(row, i).d = 1
                    /\ 2 * Abs(QuotientResidual(RowTorque(row), cell[i].slope,
                                                cell[i].intercept, RowZ(row, i).n))
                            <= Abs(cell[i].slope)

\* A row with a Z-height rounded up and a Z-height rounded down.
C2_Witness ==
    /\ \E cr \in AnalysedRows :
        LET cell == all_cells_equations[cr[1]]
            row == Rows(cr[1])[cr[2]]
        IN  /\ \E i \in 1..Len(cell) :
                QuotientResidual(RowTorque(row), cell[i].slope,
                                 cell[i].intercept, RowZ(row, i).n) > 0
            /\ \E i \in 1..Len(cell) :
                QuotientResidual(RowTorque(row), cell[i].slope,
                                 cell[i].intercept, RowZ(row, i).n) < 0

----------------------------------------------------------------------------
(* C3 *)

HasZeroSlope(cell) == \E i \in 1..Len(cell) : cell[i].slope = 0

\* C3: a call with slope 0 fails with a division-by-zero error, so a cell with
\* a zero slope gets no row, and no row holds an infinite or NaN Z-height,
\* min, max, range or uncertainty.  numpy's division returns inf or NaN
\* instead, and the row is appended: violated.
C3_ZeroSlopeRaisesAndNothingFlowsOn ==
    \A c \in AnalysedCells :
        /\ HasZeroSlope(all_cells_equations[c]) => Rows(c) = <<>>
        /\ \A r \in 1..Len(Rows(c)) :
                \A k \in 2..Len(Rows(c)[r]) : IsFinite(Rows(c)[r][k])

----------------------------------------------------------------------------
(* C4 *)

\* C4: Row 1, non-zero slope: the forward line through the computed Z-height
\* gives the torque back within |slope| * 0.0005:
\* |slope * z + intercept - torque| <= |slope| * 0.0005.
C4_RoundTripWithinTolerance ==
    script = "row1" =>
        \A r \in 1..Len(results_data) :
            LET cell == all_cells_equations[1]
                torque == torque_levels[r]
            IN  \A i \in 1..Len(cell) :
                    LET z == z_height_matrix[r][i]
                    IN  cell[i].slope # 0 =>
                            /\ IsFinite(z)
                            /\ 2 * Abs(ForwardError(torque, cell[i].slope,
                                                    cell[i].intercept, z.n))
                                    <= Abs(cell[i].slope)

\* A Row 1 Z-height whose forward image misses the torque (by rounding), for a
\* negative slope and a non-zero intercept.
C4_Witness ==
    /\ script = "row1"
    /\ \E r \in 1..Len(results_data) :
        \E i \in 1..Len(all_cells_equations[1]) :
            LET fit == all_cells_equations[1][i]
            IN  /\ fit.slope < 0
                /\ fit.intercept # 0
                /\ ForwardError(torque_levels[r], fit.slope, fit.intercept,
                                z_height_matrix[r][i].n) # 0

----------------------------------------------------------------------------
(* C5 *)

\* C5: for every cell with at least two trials and every torque level:
\* max >= min, range = max - min >= 0, and min and max are Z-heights of the row.
C5_MinMaxRange ==
    \A cr \in AnalysedRows :
        LET cell == all_cells_equations[cr[1]]
            row == Rows(cr[1])[cr[2]]
        IN  Len(cell) >= 2 =>
                /\ FGe(RowMax(row), RowMin(row))
                /\ RowRange(row) = FSub(RowMax(row), RowMin(row))
                /\ FGe(RowRange(row), Fin(0))
                /\ RowMin(row) \in RowZs(row)
                /\ RowMax(row) \in RowZs(row)
                /\ \A z \in RowZs(row) : FLe(RowMin(row), z) /\ FLe(z, RowMax(row))

\* A row of a cell of two or more trials where the last trial holds the
\* minimum, the first the maximum and the range is positive.
C5_Witness ==
    /\ \E cr \in AnalysedRows :
        LET cell == all_cells_equations[cr[1]]
            row == Rows(cr[1])[cr[2]]
        IN  /\ Len(cell) >= 2
            /\ RowMin(row) = RowZ(row, Len(cell))
            /\ RowMax(row) = RowZ(row, 1)
            /\ FGt(RowRange(row), Fin(0))

----------------------------------------------------------------------------
(* C6 *)

\* The Row 1 script has computed the first row of its own table.
C6_Witness ==
    /\ script = "row1"
    /\ all_cells_equations = Row1Equations
    /\ torque_levels = Row1TorqueLevels
    /\ Len(results_data) >= 1

\* C6 as stated: slope 117.200, intercept -7722.002, torque 45 gives 66.267.
\* (45 + 7722.002) / 117.2 = 66.27134...: violated.
C6_Example66267 ==
    C6_Witness => RowZ(results_data[1], 1) = Fin(66267)

\* C6 amended: slope 117.200, intercept -7722.002 (Cell 1, Trial 1 of the
\* Row 1 table) and torque 45 give the Z-height 66.271.
C6_Example66271 ==
    C6_Witness =>
        /\ all_cells_equations[1][1] = [slope |-> 117200, intercept |-> -7722002]
        /\ RowTorque(results_data[1]) = 45
        /\ RowZ(results_data[1], 1) = Fin(66271)

----------------------------------------------------------------------------
(* C7 *)

\* The steepest slope and trial each summary reports: <<cell, slope, trial>>.
ReportedSteepest ==
    IF script = "row1"
    THEN (IF steepest_trial = 0 THEN {}
          ELSE {<<all_cells_equations[1], steepest_slope, steepest_trial>>})
    ELSE {<<all_cells_equations[c], cell_summaries[c].steepest_slope,
            cell_summaries[c].steepest_trial>> : c \in 1..Len(cell_summaries)}

\* The trials of a cell that hold its maximum slope.
TrialsAtMaxSlope(cell) ==
    {i \in 1..Len(cell) : \A j \in 1..Len(cell) : cell[j].slope <= cell[i].slope}

\* C7: when two or more trials share the maximum slope, the trial reported
\* as steepest is the first of them in trial order and the steepest slope is
\* that shared maximum.
C7_TieBrokenByFirstTrial ==
    \A rep \in ReportedSteepest :
        LET cell == rep[1]
            tied == TrialsAtMaxSlope(cell)
        IN  Cardinality(tied) >= 2 =>
                /\ rep[3] \in tied
                /\ \A i \in tied : rep[3] <= i
                /\ rep[2] = cell[rep[3]].slope

\* A report for a cell whose maximum slope is shared by two trials.
C7_Witness ==
    \E rep \in ReportedSteepest :
        /\ Cardinality(TrialsAtMaxSlope(rep[1])) >= 2
        /\ pc = "done"

----------------------------------------------------------------------------
(* C8 *)

\* C8: two rows of one cell (same steepest slope): the row with the
\* larger-or-equal range never has the smaller uncertainty.  With every slope
\* of the cell negative the steepest slope the scripts select is negative and
\* the uncertainty falls as the range grows: violated.
C8_UncertaintyMonotoneInRange ==
    \A c \in AnalysedCells :
        \A r1, r2 \in 1..Len(Rows(c)) :
            FLe(RowRange(Rows(c)[r1]), RowRange(Rows(c)[r2]))
                => FLe(RowUncertainty(Rows(c)[r1]), RowUncertainty(Rows(c)[r2]))

----------------------------------------------------------------------------
(* C9 *)

\* The summaries made so far: <<the cell's rows, max, min, avg>>.
Summaries ==
    IF script = "row1"
    THEN (IF pc \in {"r1_status", "done"}
          THEN {<<results_data, summary.max, summary.min, summary.avg>>}
          ELSE {})
    ELSE {<<all_results[c], cell_summaries[c].max, cell_summaries[c].min,
            cell_summaries[c].avg>> : c \in 1..Len(cell_summaries)}

RECURSIVE SumOfUncertainties(_)
SumOfUncertainties(rows) ==
    IF rows = <<>> THEN 0
    ELSE RowUncertainty(Head(rows)).n + SumOfUncertainties(Tail(rows))

\* C9: the summary's max, min and mean are the largest, the smallest and the
\* arithmetic mean of the uncertainties of the cell's rows, one per torque
\* level, so min <= mean <= max.
C9_SummaryOfRowUncertainties ==
    \A sm \in Summaries :
        LET rows == sm[1]
            us == {RowUncertainty(rows[r]) : r \in 1..Len(rows)}
        IN  /\ Len(rows) = Len(torque_levels)
            /\ sm[2] \in us /\ \A u \in us : FLe(u, sm[2])
            /\ sm[3] \in us /\ \A u \in us : FLe(sm[3], u)
            /\ sm[4] = Rat(SumOfUncertainties(rows), Len(rows))
            /\ FLe(sm[3], sm[4]) /\ FLe(sm[4], sm[2])

\* A summary over rows of different uncertainties: min < mean < max.
C9_Witness ==
    \E sm \in Summaries :
        /\ Len(sm[1]) >= 2
        /\ FLt(sm[3], sm[4]) /\ FLt(sm[4], sm[2])
        /\ FGt(sm[3], Fin(0))

----------------------------------------------------------------------------
(* C10 *)

\* C10: Row 1: every torque level gets one label by its own uncertainty u:
\* LOW when u < 0.2, MEDIUM when 0.2 <= u < 0.5, HIGH when u >= 0.5; 0.15 is
\* LOW, 0.2 is MEDIUM, 0.5 is HIGH.
C10_StatusByThresholds ==
    script = "row1" =>
        /\ pc = "done" => Len(status_out) = Len(torque_levels)
        /\ \A i \in 1..Len(status_out) :
            LET u == RowUncertainty(results_data[i])
                label == status_out[i]
            IN  /\ label \in {"LOW", "MEDIUM", "HIGH"}
                /\ FLt(u, Fin(200000)) => label = "LOW"
                /\ FGe(u, Fin(200000)) /\ FLt(u, Fin(500000)) => label = "MEDIUM"
                /\ FGe(u, Fin(500000)) => label = "HIGH"
                /\ u = Fin(150000) => label = "LOW"
                /\ u = Fin(200000) => label = "MEDIUM"
                /\ u = Fin(500000) => label = "HIGH"

\* A finished run that labelled an uncertainty of exactly 0.2.
C10_Witness ==
    /\ script = "row1"
    /\ pc = "done"
    /\ \E i \in 1..Len(status_out) :
        RowUncertainty(results_data[i]) = Fin(200000)

\* Finished runs that labelled an uncertainty of exactly 0.15, of exactly 0.5,
\* and one above 0.2 next to one below it.
C10_ReachesLow ==
    /\ script = "row1"
    /\ pc = "done"
    /\ \E i \in 1..Len(status_out) :
        RowUncertainty(results_data[i]) = Fin(150000)

C10_ReachesHigh ==
    /\ script = "row1"
    /\ pc = "done"
    /\ \E i \in 1..Len(status_out) :
        RowUncertainty(results_data[i]) = Fin(500000)

C10_ReachesTwoLabels ==
    /\ script = "row1"
    /\ pc = "done"
    /\ \E i, j \in 1..Len(status_out) :
        status_out[i] = "LOW" /\ status_out[j] = "MEDIUM"

----------------------------------------------------------------------------
(* C11: the performance label of a cell in the Row 2 script *)

\* C11: in the Row 2 script every summarised cell has exactly one label, and
\* the label is fixed by the cell's maximum uncertainty m (in percent, kept
\* here in millionths): EXCELLENT when m < 5, GOOD when 5 <= m < 10,
\* ACCEPTABLE when 10 <= m < 20, NEEDS ATTENTION when m >= 20; a cell with
\* m = 7.0 is GOOD.
C11_PerformanceByThresholds ==
    script = "row2" =>
        /\ Len(cell_summaries) = (IF pc = "r2_analyze" THEN 0 ELSE ci - 1)
        /\ pc = "done" => Len(cell_summaries) = Len(all_cells_equations)
        /\ \A c \in 1..Len(cell_summaries) :
            LET m == cell_summaries[c].max
                label == cell_summaries[c].status
            IN  /\ m = py_max(AllUncertainties(all_results[c]))
                /\ label \in {"EXCELLENT", "GOOD", "ACCEPTABLE",
                               "NEEDS ATTENTION"}
                /\ FLt(m, Fin(5000000)) => label = "EXCELLENT"
                /\ FGe(m, Fin(5000000)) /\ FLt(m, Fin(10000000))
                        => label = "GOOD"
                /\ FGe(m, Fin(10000000)) /\ FLt(m, Fin(20000000))
                        => label = "ACCEPTABLE"
                /\ FGe(m, Fin(20000000)) => label = "NEEDS ATTENTION"
                /\ m = Fin(7000000) => label = "GOOD"

\* A finished Row 2 run over two cells, one with m = 7.0 and one with m on
\* the limit 5.0.
C11_Witness ==
    /\ script = "row2"
    /\ pc = "done"
    /\ Len(cell_summaries) = 2
    /\ \E c \in 1..2 : cell_summaries[c].max = Fin(7000000)
    /\ \E c \in 1..2 : cell_summaries[c].max = Fin(5000000)

\* A finished Row 2 run with one maximum on the limit 10.0 and one just
\* below the limit 20.0.
C11_ReachesUpperLimits ==
    /\ script = "row2"
    /\ pc = "done"
    /\ \E c \in 1..Len(cell_summaries) : cell_summaries[c].max = Fin(10000000)
    /\ \E c \in 1..Len(cell_summaries) : cell_summaries[c].max = Fin(19999000)

----------------------------------------------------------------------------
(* C16: the rows returned by analyze_cell_uncertainty *)

\* C16: in the Row 2 script the result of every analysed cell has exactly one
\* row per torque level, in the order of torque_levels; a row is the torque,
\* then one Z-height per trial in the cell's trial order, then min, max, range
\* and uncertainty, and its i-th Z-height is calculate_z_height of the row's
\* torque and the i-th trial's slope and intercept.
C16_OneRowPerTorqueLevel ==
    script = "row2" =>
        \A c \in 1..Len(all_results) :
            LET cell == all_cells_equations[c]
                n == Len(cell)
            IN  /\ Len(all_results[c]) = Len(torque_levels)
                /\ \A r \in 1..Len(all_results[c]) :
                    LET row == all_results[c][r]
                    IN  /\ Len(row) = n + 5
                        /\ row[1] = torque_levels[r]
                        /\ \A i \in 1..n :
                            row[1 + i] =
                                calculate_z_height_r2(torque_levels[r],
                                                      cell[i].slope,
                                                      cell[i].intercept)
                        /\ \E i \in 1..n : row[n + 2] = row[1 + i]
                        /\ \A i \in 1..n : FLe(row[n + 2], row[1 + i])
                        /\ \E i \in 1..n : row[n + 3] = row[1 + i]
                        /\ \A i \in 1..n : FGe(row[n + 3], row[1 + i])
                        /\ row[n + 4] = FSub(row[n + 3], row[n + 2])
                        /\ row[n + 5] = FMul(SteepestSlope(cell), row[n + 4])

\* A Row 2 run that has analysed two cells of two trials each at two torque
\* levels, with trials that disagree in some row.
C16_Witness ==
    /\ script = "row2"
    /\ Len(all_results) = 2
    /\ Len(torque_levels) = 2
    /\ \A c \in 1..2 : Len(all_cells_equations[c]) = 2
    /\ \E c \in 1..2 : \E r \in 1..2 :
            all_results[c][r][2] # all_results[c][r][3]
    /\ all_results[1][1] # all_results[1][2]

----------------------------------------------------------------------------
(* C18: one steepest slope per cell *)

\* C18: within a cell the steepest slope is the same at every torque level:
\* every row of the cell is its range scaled by one slope, and the most
\* sensitive trial that the summary names is a trial of that cell whose slope
\* is the slope that scaled the rows.
C18_OneSteepestSlopePerCell ==
    /\ script = "row1" /\ results_data # <<>> =>
            /\ steepest_trial \in 1..Len(all_cells_equations[1])
            /\ all_cells_equations[1][steepest_trial].slope = steepest_slope
            /\ \A r \in 1..Len(results_data) :
                    RowUncertainty(results_data[r]) =
                        FMul(steepest_slope, RowRange(results_data[r]))
    /\ script = "row2" =>
            \A c \in 1..Len(cell_summaries) :
                LET cell == all_cells_equations[c]
                    named == cell_summaries[c].steepest_trial
                IN  /\ named \in 1..Len(cell)
                    /\ cell[named].slope = cell_summaries[c].steepest_slope
                    /\ \A r \in 1..Len(all_results[c]) :
                            RowUncertainty(all_results[c][r]) =
                                FMul(cell[named].slope,
                                     RowRange(all_results[c][r]))

\* A summarised Row 2 cell whose second trial is the steeper one and whose
\* rows, at two torque levels, have a range other than zero.
C18_Witness ==
    /\ script = "row2"
    /\ Len(cell_summaries) >= 1
    /\ Len(all_cells_equations[1]) = 2
    /\ all_cells_equations[1][1].slope < all_cells_equations[1][2].slope
    /\ cell_summaries[1].steepest_trial = 2
    /\ Len(all_results[1]) = 2
    /\ \A r \in 1..2 : RowRange(all_results[1][r]) # Fin(0)

\* The same in the Row 1 script, after its second torque level.
C18_WitnessRow1 ==
    /\ script = "row1"
    /\ Len(results_data) = 2
    /\ Len(all_cells_equations[1]) = 2
    /\ steepest_trial = 2
    /\ \A r \in 1..2 : RowRange(results_data[r]) # Fin(0)

----------------------------------------------------------------------------
(* C19: the Row 1 loop and analyze_cell_uncertainty compute the same rows *)

\* C19: for the same table of trial fits of a cell and the same torque
\* levels, the inline loop of the Row 1 script and analyze_cell_uncertainty
\* of the Row 2 script give the same sequence of rows: what Row 1 has
\* computed is what analyze_cell_uncertainty returns for its input, and what
\* Row 2 has computed for a cell is what the Row 1 loop body gives for it.
C19_Row1LoopEqualsAnalyzeCell ==
    /\ script = "row1" =>
            LET rows == analyze_cell_uncertainty(all_cells_equations[1],
                                                 torque_levels)
            IN  /\ Len(results_data) <= Len(rows)
                /\ \A r \in 1..Len(results_data) : results_data[r] = rows[r]
                /\ pc # "r1_loop" => results_data = rows
    /\ script = "row2" =>
            \A c \in 1..Len(all_results) :
                /\ Len(all_results[c]) = Len(torque_levels)
                /\ \A r \in 1..Len(all_results[c]) :
                        all_results[c][r] =
                            R1_LoopBody(torque_levels[r],
                                        all_cells_equations[c]).row_data

\* A finished Row 1 run over two trials and two torque levels whose rows
\* differ and have a range other than zero.
C19_Witness ==
    /\ script = "row1"
    /\ pc = "done"
    /\ Len(all_cells_equations[1]) = 2
    /\ Len(results_data) = 2
    /\ results_data[1] # results_data[2]
    /\ \A r \in 1..2 : RowRange(results_data[r]) # Fin(0)

----------------------------------------------------------------------------
(* Reading the state of the fitting scripts *)

Reported(msg, trial, cell) ==
    \E i \in 1..Len(printed) :
        printed[i].msg = msg /\ printed[i].trial = trial /\ printed[i].cell = cell

\* The file is there as a spreadsheet that read_excel reads.
Readable(f) == f.at # "missing" /\ f.ok

\* The trial numbers of the files the load loop has gone through.
Attempted == {attempts[i] : i \in 1..Len(attempts)}

\* The column has a sample in the filter range.
InRange(df, column) ==
    \E j \in 1..Len(df) :
        /\ ~df[j].torque[column].null
        /\ 42 <= df[j].torque[column].v
        /\ df[j].torque[column].v <= 57

\* The trials whose table has gone through the filter and the fits.
ProcessedTrials ==
    IF fscript = "fit_all" THEN Keys(all_equations)
    ELSE IF fscript = "curvefit" /\ fpc \in {"statistics", "done"}
            /\ trial_data # <<>> THEN {1}
    ELSE {}

\* The calls of linregress for a cell of a trial.
FitsOf(trial, cell) ==
    {i \in 1..Len(fit_calls) :
        fit_calls[i].trial = trial /\ fit_calls[i].cell = cell}

Terminated == fpc \in {"done", "exited"}

----------------------------------------------------------------------------
(* C12: missing trial files *)

C12_WitnessCurvefit ==
    /\ fscript = "curvefit"
    /\ files[1].at = "missing"
    /\ fpc = "done"

----------------------------------------------------------------------------
(* C13: termination of fit_all.py *)

\* The runs over every combination of trial files that are missing,
\* unreadable, in the script directory or in the working directory.
FileInputs ==
    LET states == {Missing, Unreadable,
                   Present("script_dir", <<[z |-> -1, torque |-> Pattern(3)]>>),
                   Present("cwd", <<[z |-> -1, torque |-> Pattern(5)]>>)}
    IN  [script : {"fit_all"}, files : [1..NumTrialFiles -> states]]
            \cup [script : {"curvefit"}, files : {<<f>> : f \in states}]

InitFiles ==
    /\ UncertaintyIdle
    /\ \E in \in FileInputs :
        /\ fscript = in.script
        /\ files = in.files
    /\ FitStart

\* The fitting scripts under the scheduling of a script: a script keeps
\* running while a statement is left to run.
FairSpecFit == InitFiles /\ [][NextFit]_vars /\ WF_vars(NextFit)

\* Nothing of the figure, the fits, the table or the statistics is there.
NothingProduced ==
    /\ axes = <<>>
    /\ fit_calls = <<>>
    /\ all_equations = <<>>
    /\ summary_table = NoTable
    /\ statistics = <<>>

\* The number of times the loop over trial_data has printed the count of a
\* column of a trial.
TimesProcessed(trial, cell) ==
    Cardinality({i \in 1..Len(printed) :
                    /\ printed[i].trial = trial
                    /\ printed[i].cell = cell
                    /\ printed[i].msg \in {"data points in range",
                                           "No data points in range"}})

C13_Safety ==
    fscript = "fit_all" =>
        /\ \A i, j \in 1..Len(attempts) : i # j => attempts[i] # attempts[j]
        /\ fpc \notin {"load", "check"} /\ trial_data = <<>> =>
                /\ fpc = "exited"
                /\ Reported("No trial data found!", 0, 0)
                /\ NothingProduced
        /\ fpc \in {"load", "check"} => NothingProduced
        /\ trial_data # <<>> => fpc \notin {"exited", "failed"}
        /\ \A k \in 1..NumTrialFiles : \A c \in 1..NumColumns :
                TimesProcessed(k, c) =
                    (IF k \in Keys(all_equations) THEN 1 ELSE 0)
        /\ fpc = "done" =>
                /\ attempts = [k \in 1..NumTrialFiles |-> k]
                /\ [i \in 1..Len(all_equations) |-> all_equations[i].key]
                        = [i \in 1..Len(trial_data) |-> trial_data[i].key]
                /\ [i \in 1..Len(statistics) |-> statistics[i].trial]
                        = [i \in 1..Len(trial_data) |-> trial_data[i].key]

C13_WitnessDone ==
    /\ fscript = "fit_all"
    /\ fpc = "done"
    /\ Len(trial_data) = 3
    /\ Len(all_equations) = 3

----------------------------------------------------------------------------
(* C14: cells and trials without a sample in the filter range *)

\* The table of a processed trial.
TableOf(trial) == Lookup(trial_data, trial)

C14_WitnessPlaceholder ==
    /\ fscript = "fit_all"
    /\ fpc = "done"
    /\ \E k \in Keys(trial_data) : axes[k] = "placeholder"
    /\ \E k \in Keys(trial_data) : axes[k] = "plot"

C14_WitnessCurvefit ==
    /\ fscript = "curvefit"
    /\ fpc = "done"
    /\ axes = <<"placeholder">>
    /\ Len(TableOf(1)) = 2

----------------------------------------------------------------------------
(* C15: the samples handed to the linear fit *)

\* The rows of a table whose torque for the column is there and within
\* 42..57, in the order of the table.
RowsToFit(df, column) ==
    sorted({j \in 1..Len(df) :
                /\ ~df[j].torque[column].null
                /\ 42 <= df[j].torque[column].v
                /\ df[j].torque[column].v <= 57})

C15_WitnessCurvefit ==
    /\ fscript = "curvefit"
    /\ \E i \in 1..Len(fit_calls) :
            /\ fit_calls[i].fit.y = <<42, 57>>
            /\ fit_calls[i].fit.x = <<1, 3>>

C15_WitnessNull ==
    \E i \in 1..Len(fit_calls) :
        /\ Len(fit_calls[i].fit.y) = 1
        /\ \E j \in 1..Len(TableOf(fit_calls[i].trial)) :
                TableOf(fit_calls[i].trial)[j].torque[fit_calls[i].cell].null

----------------------------------------------------------------------------
(* C17: the headers of the summary table *)

\* C17: in fit_all.py, whichever trial files were loaded, every column of
\* the summary table is headed by the number of the trial whose equations
\* it shows: the header 'Trial k' stands over the equations of
\* all_equations[k], also when an earlier trial file is missing.
C17_HeaderNamesTrialOfColumn ==
    fscript = "fit_all" /\ summary_table # NoTable =>
        /\ Len(summary_table.headers) = Len(summary_table.columns)
        /\ \A j \in 1..Len(summary_table.headers) :
                summary_table.headers[j] = summary_table.columns[j]

\* fit_all.py has built the table after Trial1.xlsx was missing and the
\* other three trials were loaded.
C17_FirstTrialMissing ==
    /\ fscript = "fit_all"
    /\ summary_table # NoTable
    /\ Keys(trial_data) = {2, 3, 4}
    /\ summary_table.headers = <<1, 2, 3>>
    /\ summary_table.columns = <<2, 3, 4>>

====
